---- MODULE Spec2Model ----
(***************************************************************************)
(* Model of src/app.py: a Flask application with a session gate, a lazily  *)
(* initialised process-wide pCloud client, a file-id registry helper       *)
(* (get_or_register_file_id), a media proxy route and a scene reader that  *)
(* segments text into paragraphs and attaches image triggers.              *)
(***************************************************************************)
EXTENDS Integers, Sequences, FiniteSets, TLC

VARIABLES
    scene_text,     \* writing.scenes.scene_text of scene 1 (sequence of characters)
    media_sync,     \* writing.media_sync rows, in stored order
    page,           \* the document read_scene rendered last (NoPage before any)
    files,          \* writing.files rows (the registry)
    next_file_id,   \* the serial behind writing.files.file_id
    pcloud_client,  \* the global handle: None, or the id of a PyCloud client
    nclients,       \* PyCloud clients constructed so far
    pcloud_creds,   \* PCLOUD_EMAIL and PCLOUD_PASSWORD are both set
    session,        \* the browser's session cookie
    kind,           \* per thread: what it runs
    pc,             \* per thread: where it is
    arg,            \* per thread: the arguments of what it runs
    sess,           \* per thread: the session the request arrived with
    local,          \* per thread: local variables (file_record, file_id, ...)
    status,         \* per thread: the outcome (HTTP status, or the return path)
    ret,            \* per thread: get_or_register_file_id's return value
    exc,            \* per thread: the exception `e` its except clause caught last
    ops,            \* per thread: the collaborator operations the request performed
    mimetype,       \* per thread: the mimetype of the Response it streamed
    listed,         \* per filename: listfolder calls that reached the backend
    nreq            \* requests and calls begun so far

vars == << scene_text, media_sync, page, files, next_file_id, pcloud_client,
           nclients, pcloud_creds, session, kind, pc, arg, sess, local, status, ret,
           exc, ops, mimetype, listed, nreq >>


----------------------------------------------------------------------------
(* Bounds                                                                   *)

MaxTextLen == 4
MaxRows == 2
MaxRequests == 3

----------------------------------------------------------------------------
(* Values                                                                   *)

\* Python None / SQL NULL / the empty string: everything `if x` treats as false.
None == << >>

NL == "\n"
Chars == {"a", NL}

\* f'p-{scene_id}-{n}'
UnitId(scene_id, n) == << "p", scene_id, n >>

\* url_for('secure_media_proxy', scene_id=..., filename=...)
UrlFor(scene_id, filename) == << "media", scene_id, filename >>

\* the blank gif of line 595
Placeholder == << "data:image/gif" >>

\* str(n) and int(s), lines 98, 104 and 298
Str(n) == << "str", n >>
ToInt(s) == s[2]

Last(s) == s[Len(s)]

----------------------------------------------------------------------------
(* read_scene, lines 563-595: segmentation and trigger resolution           *)

\* first index of the separator "\n\n" in s, 0 when there is none
FirstSep(s) ==
    LET hits == { i \in 1..(Len(s) - 1) : s[i] = NL /\ s[i + 1] = NL }
    IN  IF hits = {} THEN 0 ELSE CHOOSE i \in hits : \A j \in hits : i <= j

\* str.split('\n\n'): left to right, non-overlapping, empty spans kept
RECURSIVE Split(_)
Split(s) ==
    LET i == FirstSep(s)
    IN  IF i = 0 THEN << s >>
        ELSE << SubSeq(s, 1, i - 1) >> \o Split(SubSeq(s, i + 2, Len(s)))

Paragraphs(text) == Split(text)

\* line 569: only image rows with a non-empty path are kept
IsImageTrigger(row) == row.media_type = "image" /\ row.media_file_path # None

\* lines 568-574
MediaTriggers(scene_id, raw_triggers) ==
    LET kept == SelectSeq(raw_triggers, IsImageTrigger)
    IN  [ k \in 1..Len(kept) |->
            [ trigger_id |-> kept[k].text_trigger_id,
              media_path |-> UrlFor(scene_id, Last(kept[k].media_file_path)) ] ]

\* a scan that keeps the last match instead of stopping at the first
TriggerDataLast(media_triggers, id) ==
    LET hits == { k \in 1..Len(media_triggers) : media_triggers[k].trigger_id = id }
    IN  IF hits = {} THEN None
        ELSE media_triggers[CHOOSE k \in hits : \A j \in hits : k >= j].media_path

\* line 581: next((t for t in media_triggers if t['trigger_id'] == id), None)
TriggerData(media_triggers, id) ==
    LET hits == { k \in 1..Len(media_triggers) : media_triggers[k].trigger_id = id }
    IN  IF hits = {} THEN None
        ELSE media_triggers[CHOOSE k \in hits : \A j \in hits : k <= j].media_path

\* lines 577-590: one <p> per span, with the data-image-url of its trigger
Units(scene_id, paragraphs, media_triggers) ==
    [ i \in 1..Len(paragraphs) |->
        [ id    |-> UnitId(scene_id, i),
          text  |-> paragraphs[i],
          media |-> TriggerData(media_triggers, UnitId(scene_id, i)) ] ]

\* line 595
DefaultImage(media_triggers) ==
    IF media_triggers # << >> THEN media_triggers[1].media_path ELSE Placeholder

RenderScene(scene_id, text, raw_triggers) ==
    LET mt == MediaTriggers(scene_id, raw_triggers)
    IN  [ units         |-> Units(scene_id, Paragraphs(text), mt),
          default_image |-> DefaultImage(mt) ]

NoPage == [ units |-> << >>, default_image |-> None ]

----------------------------------------------------------------------------
(* The datastore and the storage backend                                    *)

Threads == {"t1", "t2"}

\* scene ids with a complete scene -> chapter -> story -> series chain
Scenes == {1}
BookSlug == "loops"
SeriesSlug == "ezra"

\* the rows of the query of lines 521-535; fetchall keeps the stored order
SceneRowsOf(text, triggers, scene_id) ==
    LET ms == SelectSeq(triggers, LAMBDA m : m.scene_id = scene_id)
        base == [ scene_text |-> text, book_slug |-> BookSlug,
                  series_slug |-> SeriesSlug ]
    IN  IF scene_id \notin Scenes THEN << >>
        ELSE IF ms = << >>
        THEN << base @@ [ text_trigger_id |-> None, media_type |-> None,
                          media_file_path |-> None ] >>
        ELSE [ k \in 1..Len(ms) |->
                 base @@ [ text_trigger_id |-> ms[k].text_trigger_id,
                           media_type |-> ms[k].media_type,
                           media_file_path |-> ms[k].media_file_path ] ]

SceneRows(scene_id) == SceneRowsOf(scene_text, media_sync, scene_id)

\* line 555
RawTriggers(results) == SelectSeq(results, LAMBDA row : row.text_trigger_id # None)

\* the rows of the query of lines 255-267: the columns are book_slug,
\* series_slug, file_type and pcloud_file_id
ProxyRows(scene_id, filename) ==
    { [ book_slug |-> BookSlug, series_slug |-> SeriesSlug,
        file_type |-> f.file_type, pcloud_file_id |-> f.pcloud_file_id ] :
      f \in { g \in files :
                /\ g.file_name = filename
                /\ scene_id \in Scenes
                /\ \E k \in 1..Len(media_sync) :
                      /\ media_sync[k].scene_id = scene_id
                      /\ media_sync[k].file_id = g.file_id } }

\* lines 70-73 and posixpath.dirname of line 78
MediaFolder(media_type) == IF media_type = "image" THEN "images" ELSE "audio"
PCloudPath(series_slug, book_slug, media_type, file_name) ==
    << "my_private_stories", "media", "series", series_slug, book_slug, "scenes",
       MediaFolder(media_type), file_name >>
Dirname(path) == SubSeq(path, 1, Len(path) - 1)

\* what the storage backend holds: the 'contents' of each folder
StorageContents(dir) ==
    IF dir = Dirname(PCloudPath(SeriesSlug, BookSlug, "image", "any"))
    THEN << [ name |-> "x.jpg", fileid |-> 7 ], [ name |-> "y.png", fileid |-> 8 ] >>
    ELSE << >>

\* lines 81-85: the fileid of the first item named file_name, else None (0)
FindFileId(contents, file_name) ==
    LET hits == { k \in 1..Len(contents) : contents[k].name = file_name }
    IN  IF hits = {} THEN 0
        ELSE contents[CHOOSE k \in hits : \A j \in hits : k <= j].fileid

\* a plain INSERT, with no ON CONFLICT clause and no unique filename
InsertAlways(rows, serial, pcloud_file_id, file_name, file_type) ==
    rows \cup { [ file_id |-> serial, file_name |-> file_name,
                  pcloud_file_id |-> pcloud_file_id, file_type |-> file_type ] }

\* lines 93-98: INSERT ... ON CONFLICT (file_name) DO UPDATE SET pcloud_file_id
Upsert(rows, serial, pcloud_file_id, file_name, file_type) ==
    IF \E r \in rows : r.file_name = file_name
    THEN { IF r.file_name = file_name
           THEN [ r EXCEPT !.pcloud_file_id = pcloud_file_id ] ELSE r : r \in rows }
    ELSE rows \cup { [ file_id |-> serial, file_name |-> file_name,
                       pcloud_file_id |-> pcloud_file_id, file_type |-> file_type ] }

\* line 60-61: SELECT pcloud_file_id FROM writing.files WHERE file_name = ...
FileRecord(rows, file_name) ==
    IF \E r \in rows : r.file_name = file_name
    THEN (CHOOSE r \in rows : r.file_name = file_name).pcloud_file_id
    ELSE None

----------------------------------------------------------------------------
(* Threads: requests served by the application, and direct callers of       *)
(* get_or_register_file_id                                                  *)

NoArg == [ scene_id |-> 0, filename |-> "", media_type |-> "", password |-> "" ]
NoSession == [ user_id |-> 0, login_error |-> "" ]

Finish(t, outcome) ==
    /\ status' = [status EXCEPT ![t] = outcome]
    /\ pc' = [pc EXCEPT ![t] = "done"]

Did(t, op) == ops' = [ops EXCEPT ![t] = @ \cup {op}]

\* a request arrives: Flask loads the session cookie and runs before_request
BeginRequest(t) ==
    /\ pc[t] \in {"idle", "done"}
    /\ nreq < MaxRequests
    /\ \E k \in {"login", "logout", "library", "read", "media"} :
       \E a \in [ scene_id : {1, 2}, filename : {"x.jpg", "y.png", "gone.png"},
                   media_type : {""}, password : {"good", "bad"} ] :
          /\ k \in {"logout", "library"} => a.scene_id = 1 /\ a.password = "good"
          /\ k \in {"logout", "library", "login", "read"} => a.filename = "x.jpg"
          /\ k = "login" => a.scene_id = 1
          /\ k \in {"read", "media"} => a.password = "good"
          /\ k = "media" => a.scene_id = 1
          /\ kind' = [kind EXCEPT ![t] = k]
          /\ arg' = [arg EXCEPT ![t] = a]
    /\ sess' = [sess EXCEPT ![t] = session]
    /\ pc' = [pc EXCEPT ![t] = "setup"]
    /\ status' = [status EXCEPT ![t] = "pending"]
    /\ ret' = [ret EXCEPT ![t] = None]
    /\ exc' = [exc EXCEPT ![t] = "none"]
    /\ mimetype' = [mimetype EXCEPT ![t] = ""]
    /\ ops' = [ops EXCEPT ![t] = {}]
    /\ local' = [local EXCEPT ![t] = 0]
    /\ nreq' = nreq + 1
    /\ UNCHANGED << scene_text, media_sync, page, files, next_file_id,
                    pcloud_client, nclients, pcloud_creds, session, listed >>

\* some code of the process calls get_or_register_file_id(scene_id, file_name,
\* book_slug, series_slug, media_type), line 46
BeginCall(t) ==
    /\ pc[t] \in {"idle", "done"}
    /\ nreq < MaxRequests
    /\ \E f \in {"x.jpg", "y.png"}, m \in {"image", "audio"} :
          arg' = [arg EXCEPT ![t] = [ scene_id |-> 1, filename |-> f,
                                     media_type |-> m, password |-> "" ]]
    /\ kind' = [kind EXCEPT ![t] = "call"]
    /\ pc' = [pc EXCEPT ![t] = "reg_select"]
    /\ status' = [status EXCEPT ![t] = "pending"]
    /\ ret' = [ret EXCEPT ![t] = None]
    /\ exc' = [exc EXCEPT ![t] = "none"]
    /\ mimetype' = [mimetype EXCEPT ![t] = ""]
    /\ ops' = [ops EXCEPT ![t] = {}]
    /\ local' = [local EXCEPT ![t] = 0]
    /\ nreq' = nreq + 1
    /\ UNCHANGED << scene_text, media_sync, page, files, next_file_id,
                    pcloud_client, nclients, pcloud_creds, session, sess, listed >>

----------------------------------------------------------------------------
(* setup_pcloud and initialize_pcloud_client, lines 23-40                   *)

\* line 39: the test that decides whether this request initialises
NeedsInit(client, creds) == client = 0 /\ creds

SetupPcloud(t) ==
    /\ pc[t] = "setup"
    /\ pc' = [pc EXCEPT ![t] =
                IF NeedsInit(pcloud_client, pcloud_creds) THEN "init" ELSE "route"]
    /\ UNCHANGED << mimetype, scene_text, media_sync, page, files, next_file_id,
                    pcloud_client, nclients, pcloud_creds, session, kind, arg,
                    sess, local, status, ret, ops, listed, nreq, exc >>

\* lines 23-34 and the assignment of line 40; PyCloud(...) logs in over the
\* network and either returns a new client or raises
InitializePcloudClient(t) ==
    /\ pc[t] = "init"
    /\ \E login_ok \in BOOLEAN :
          IF pcloud_creds /\ login_ok
          THEN /\ nclients' = nclients + 1
               /\ pcloud_client' = nclients + 1
          ELSE /\ nclients' = nclients
               /\ pcloud_client' = 0
    /\ pc' = [pc EXCEPT ![t] = "route"]
    /\ UNCHANGED << mimetype, scene_text, media_sync, page, files, next_file_id,
                    pcloud_creds, session, kind, arg, sess, local, status, ret,
                    ops, listed, nreq, exc >>

----------------------------------------------------------------------------
(* Exceptions                                                               *)

\* `except Exception` (lines 280, 557): every exception raised in the try
\* body is caught, the HTTPException of abort() included, and answered by
\* abort(500)
ExceptException(raised) == IF raised = "none" THEN "continue" ELSE "500"

\* 'user_id' in session
LoggedIn(s) == s.user_id # 0

----------------------------------------------------------------------------
(* login_submit, logout, story_library: lines 141-232                       *)

\* a check that accepts every password
AcceptAnyPassword(password) == TRUE

\* line 157: user and check_password_hash(user['password_hash'], password_input);
\* "good" is the password whose hash writing.users stores
CheckPasswordHash(password) == password = "good"

LoginSubmit(t) ==
    /\ pc[t] = "route" /\ kind[t] = "login"
    /\ \E db_ok \in BOOLEAN :
          IF ~db_ok
          THEN /\ session' = [sess[t] EXCEPT !.login_error = "db"]
               /\ Finish(t, "to_login")
          ELSE IF CheckPasswordHash(arg[t].password)
          THEN /\ session' = [ user_id |-> 1, login_error |-> "" ]
               /\ Finish(t, "to_library")
          ELSE /\ session' = [sess[t] EXCEPT !.login_error = "bad"]
               /\ Finish(t, "to_login")
    /\ Did(t, "query")
    /\ UNCHANGED << mimetype, scene_text, media_sync, page, files, next_file_id,
                    pcloud_client, nclients, pcloud_creds, kind, arg, sess, local,
                    ret, listed, nreq, exc >>

Logout(t) ==
    /\ pc[t] = "route" /\ kind[t] = "logout"
    /\ session' = NoSession
    /\ Finish(t, "to_login")
    /\ UNCHANGED << mimetype, scene_text, media_sync, page, files, next_file_id,
                    pcloud_client, nclients, pcloud_creds, kind, arg, sess, local,
                    ret, ops, listed, nreq, exc >>

StoryLibrary(t) ==
    /\ pc[t] = "route" /\ kind[t] = "library"
    /\ IF ~LoggedIn(sess[t])
       THEN Finish(t, "to_login") /\ UNCHANGED ops
       ELSE Finish(t, "200") /\ Did(t, "query")
    /\ UNCHANGED << mimetype, scene_text, media_sync, page, files, next_file_id,
                    pcloud_client, nclients, pcloud_creds, session, kind, arg,
                    sess, local, ret, listed, nreq, exc >>

----------------------------------------------------------------------------
(* read_scene, lines 496-661                                                *)

\* what the try body of lines 516-555 raises
ReadSceneRaised(db_ok, results) ==
    IF ~db_ok THEN "OperationalError"
    ELSE IF results = << >> THEN "NotFound"     \* abort(404), line 541
    ELSE "none"

ReadScene(t) ==
    /\ pc[t] = "route" /\ kind[t] = "read"
    /\ IF ~LoggedIn(sess[t])
       THEN Finish(t, "to_login") /\ UNCHANGED << ops, page, exc >>
       ELSE \E db_ok \in BOOLEAN :
              LET results == SceneRows(arg[t].scene_id)
                  raised == ReadSceneRaised(db_ok, results)
                  after == ExceptException(raised)
              IN  /\ Did(t, "query")
                  /\ exc' = [exc EXCEPT ![t] = raised]
                  /\ IF after = "continue"
                     THEN /\ page' = RenderScene(arg[t].scene_id,
                                                 results[1].scene_text,
                                                 RawTriggers(results))
                          /\ Finish(t, "200")
                     ELSE /\ page' = page
                          /\ Finish(t, after)
    /\ UNCHANGED << mimetype, scene_text, media_sync, files, next_file_id, pcloud_client,
                    nclients, pcloud_creds, session, kind, arg, sess, local, ret,
                    listed, nreq >>

----------------------------------------------------------------------------
(* secure_media_proxy, lines 240-312                                        *)

\* a gate that forgets the session check
ProxyGateNoSession(s, client) == IF client = 0 THEN "503" ELSE "continue"

\* lines 243-244
ProxyGate(s, client) ==
    IF ~LoggedIn(s) THEN "401"
    ELSE IF client = 0 THEN "503"
    ELSE "continue"

SecureMediaProxy(t) ==
    /\ pc[t] = "route" /\ kind[t] = "media"
    /\ LET gate == ProxyGate(sess[t], pcloud_client)
       IN  IF gate = "continue"
           THEN /\ pc' = [pc EXCEPT ![t] = "proxy_query"]
                /\ UNCHANGED status
           ELSE Finish(t, gate)
    /\ UNCHANGED << mimetype, scene_text, media_sync, page, files, next_file_id,
                    pcloud_client, nclients, pcloud_creds, session, kind, arg,
                    sess, local, ret, ops, listed, nreq, exc >>

\* what the try body of lines 250-278 raises; rows is what the query matches
\* and db_result the row fetchone returned
ProxyQueryRaised(db_ok, rows, db_result) ==
    IF ~db_ok THEN "OperationalError"
    ELSE IF rows = {} THEN "NotFound"                          \* abort(404), line 274
    ELSE IF "media_type" \notin DOMAIN db_result THEN "KeyError" \* line 278
    ELSE "none"

ProxyQuery(t) ==
    /\ pc[t] = "proxy_query"
    /\ Did(t, "query")
    /\ \E db_ok \in BOOLEAN :
       LET rows == ProxyRows(arg[t].scene_id, arg[t].filename)
       IN  \E db_result \in (IF rows = {} THEN {None} ELSE rows) :
             LET raised == ProxyQueryRaised(db_ok, rows, db_result)
                 after == ExceptException(raised)
             IN  /\ exc' = [exc EXCEPT ![t] = raised]
                 /\ IF after = "continue"
                    THEN /\ arg' = [arg EXCEPT ![t].media_type = db_result.media_type]
                         /\ pc' = [pc EXCEPT ![t] = "reg_select"]
                         /\ UNCHANGED status
                    ELSE /\ Finish(t, after)
                         /\ UNCHANGED arg
    /\ UNCHANGED << mimetype, scene_text, media_sync, page, files, next_file_id,
                    pcloud_client, nclients, pcloud_creds, session, kind, sess,
                    local, ret, listed, nreq >>

----------------------------------------------------------------------------
(* get_or_register_file_id, lines 46-109                                    *)

\* a return statement of the helper: the value and the line it left by;
\* "crash" is the return of the except clause, line 109
Return(t, value, path, raised) ==
    /\ ret' = [ret EXCEPT ![t] = value]
    /\ exc' = [exc EXCEPT ![t] = raised]
    /\ status' = [status EXCEPT ![t] = path]
    /\ pc' = [pc EXCEPT ![t] = "reg_ret"]

\* a lookup that never trusts the registry
RegistryAlwaysMiss(file_record) == FALSE

\* line 63: file_record and file_record.get('pcloud_file_id')
RegistryHit(file_record) == file_record # None

\* lines 56-65
RegSelect(t) ==
    /\ pc[t] = "reg_select"
    /\ Did(t, "registry")
    /\ \E db_ok \in BOOLEAN :
          LET file_record == FileRecord(files, arg[t].filename)
          IN  IF ~db_ok THEN Return(t, None, "crash", "OperationalError")   \* line 109
              ELSE IF RegistryHit(file_record)
              THEN Return(t, file_record, "hit", "none")        \* line 65
              ELSE /\ pc' = [pc EXCEPT ![t] = "reg_list"]
                   /\ UNCHANGED << ret, status, exc >>
    /\ UNCHANGED << mimetype, scene_text, media_sync, page, files, next_file_id,
                    pcloud_client, nclients, pcloud_creds, session, kind, arg,
                    sess, local, listed, nreq >>

\* lines 70-90
RegList(t) ==
    /\ pc[t] = "reg_list"
    /\ IF pcloud_client = 0
       THEN \* None.listfolder raises AttributeError: no backend call is made
            /\ Return(t, None, "crash", "AttributeError")
            /\ UNCHANGED << local, listed, ops >>
       ELSE /\ listed' = [listed EXCEPT ![arg[t].filename] = @ + 1]
            /\ Did(t, "listing")
            /\ \E backend_ok \in BOOLEAN :
                 LET dir == Dirname(PCloudPath(SeriesSlug, BookSlug,
                                               arg[t].media_type, arg[t].filename))
                     file_id == FindFileId(StorageContents(dir), arg[t].filename)
                 IN  IF ~backend_ok
                     THEN Return(t, None, "crash", "BackendError") /\ UNCHANGED local
                     ELSE IF file_id = 0
                     THEN Return(t, None, "notfound", "none") /\ UNCHANGED local  \* line 90
                     ELSE /\ local' = [local EXCEPT ![t] = file_id]
                          /\ pc' = [pc EXCEPT ![t] = "reg_upsert"]
                          /\ UNCHANGED << ret, status, exc >>
    /\ UNCHANGED << mimetype, scene_text, media_sync, page, files, next_file_id,
                    pcloud_client, nclients, pcloud_creds, session, kind, arg,
                    sess, nreq >>

\* lines 92-104
RegUpsert(t) ==
    /\ pc[t] = "reg_upsert"
    /\ \E db_ok \in BOOLEAN :
          IF ~db_ok
          THEN /\ Return(t, None, "crash", "OperationalError")  \* lines 106-109
               /\ UNCHANGED << files, next_file_id >>
          ELSE /\ files' = Upsert(files, next_file_id, Str(local[t]),
                                  arg[t].filename, arg[t].media_type)
               /\ next_file_id' = IF Cardinality(files') > Cardinality(files)
                                  THEN next_file_id + 1 ELSE next_file_id
               /\ Return(t, Str(local[t]), "registered", "none") \* line 104
    /\ UNCHANGED << mimetype, scene_text, media_sync, page, pcloud_client, nclients,
                    pcloud_creds, session, kind, arg, sess, local, ops, listed,
                    nreq >>

\* line 302
ContentType(media_type) == IF media_type = "image" THEN "image/jpeg" ELSE "audio/mpeg"

\* the helper returns to its caller; in secure_media_proxy lines 290-312 follow
RegReturn(t) ==
    /\ pc[t] = "reg_ret"
    /\ pc' = [pc EXCEPT ![t] = "done"]
    /\ IF kind[t] = "call"
       THEN UNCHANGED << status, ops, mimetype >>
       ELSE IF ret[t] = None
       THEN /\ status' = [status EXCEPT ![t] = "404"]                 \* line 292
            /\ UNCHANGED << ops, mimetype >>
       ELSE /\ Did(t, "download")
            /\ \E backend_ok \in BOOLEAN :
                 IF backend_ok
                 THEN /\ status' = [status EXCEPT ![t] = "bytes"]     \* line 307
                      /\ mimetype' = [mimetype EXCEPT ![t] =
                                        ContentType(arg[t].media_type)]
                 ELSE /\ status' = [status EXCEPT ![t] = "404"]       \* line 312
                      /\ UNCHANGED mimetype
    /\ UNCHANGED << scene_text, media_sync, page, files, next_file_id,
                    pcloud_client, nclients, pcloud_creds, session, kind, arg,
                    sess, local, ret, listed, nreq, exc >>

----------------------------------------------------------------------------
(* The application                                                          *)

SceneOneText == << "a", NL, NL, "a" >>

SceneOneTriggers ==
    << [ scene_id |-> 1, text_trigger_id |-> UnitId(1, 2), media_type |-> "image",
         media_file_path |-> << "scenes", "x.jpg" >>, file_id |-> 1 ],
       [ scene_id |-> 1, text_trigger_id |-> UnitId(1, 1), media_type |-> "image",
         media_file_path |-> << "scenes", "gone.png" >>, file_id |-> 2 ] >>

\* writing.files before anything was registered: the assets the triggers refer
\* to have their rows, with no pCloud id yet; gone.png is not in the storage
FilesAtStart ==
    { [ file_id |-> 1, file_name |-> "x.jpg", pcloud_file_id |-> None,
        file_type |-> "image" ],
      [ file_id |-> 2, file_name |-> "gone.png", pcloud_file_id |-> None,
        file_type |-> "image" ] }

IdleThreads ==
    /\ kind = [t \in Threads |-> "none"]
    /\ pc = [t \in Threads |-> "idle"]
    /\ arg = [t \in Threads |-> NoArg]
    /\ sess = [t \in Threads |-> NoSession]
    /\ local = [t \in Threads |-> 0]
    /\ status = [t \in Threads |-> "pending"]
    /\ ret = [t \in Threads |-> None]
    /\ exc = [t \in Threads |-> "none"]
    /\ ops = [t \in Threads |-> {}]
    /\ mimetype = [t \in Threads |-> ""]
    /\ listed = [f \in {"x.jpg", "y.png"} |-> 0]
    /\ nreq = 0

Init ==
    /\ scene_text = SceneOneText
    /\ media_sync = SceneOneTriggers
    /\ page = NoPage
    /\ files = FilesAtStart
    /\ next_file_id = 3
    /\ pcloud_client = 0
    /\ nclients = 0
    /\ pcloud_creds \in BOOLEAN
    /\ session = NoSession
    /\ IdleThreads

Next ==
    \E t \in Threads :
        \/ BeginRequest(t)
        \/ BeginCall(t)
        \/ SetupPcloud(t)
        \/ InitializePcloudClient(t)
        \/ LoginSubmit(t)
        \/ Logout(t)
        \/ StoryLibrary(t)
        \/ ReadScene(t)
        \/ SecureMediaProxy(t)
        \/ ProxyQuery(t)
        \/ RegSelect(t)
        \/ RegList(t)
        \/ RegUpsert(t)
        \/ RegReturn(t)

Spec == Init /\ [][Next]_vars

\* the requests of one browser served one after another: a request arrives
\* only when no other is being served
Quiet(t) == \A u \in Threads \ {t} : pc[u] \in {"idle", "done"}

NextSeq ==
    \E t \in Threads :
        \/ Quiet(t) /\ BeginRequest(t)
        \/ Quiet(t) /\ BeginCall(t)
        \/ SetupPcloud(t)
        \/ InitializePcloudClient(t)
        \/ LoginSubmit(t)
        \/ Logout(t)
        \/ StoryLibrary(t)
        \/ ReadScene(t)
        \/ SecureMediaProxy(t)
        \/ ProxyQuery(t)
        \/ RegSelect(t)
        \/ RegList(t)
        \/ RegUpsert(t)
        \/ RegReturn(t)

SpecSeq == Init /\ [][NextSeq]_vars

----------------------------------------------------------------------------
(* The reader over bounded scenes: the text and the trigger rows of scene 1 *)
(* are drawn from bounded sets and a logged-in request reads the scene      *)

SeqsUpTo(S, n) == UNION { [1..k -> S] : k \in 0..n }

TriggerRow(id, type, path) ==
    [ scene_id |-> 1, text_trigger_id |-> id, media_type |-> type,
      media_file_path |-> path, file_id |-> 1 ]

TriggerRowChoices ==
    { TriggerRow(id, "image", path) :
        id \in { UnitId(1, 1), UnitId(1, 2), UnitId(2, 1) },
        path \in { << "scenes", "x.jpg" >>, << "y.png" >> } }
    \cup { TriggerRow(UnitId(1, 1), "audio", << "z.mp3" >>),
           TriggerRow(UnitId(1, 2), "image", None) }

InitRender ==
    /\ scene_text \in SeqsUpTo(Chars, MaxTextLen)
    /\ media_sync \in SeqsUpTo(TriggerRowChoices, MaxRows)
    /\ page = NoPage
    /\ files = FilesAtStart
    /\ next_file_id = 3
    /\ pcloud_client = 0
    /\ nclients = 0
    /\ pcloud_creds = FALSE
    /\ session = [ user_id |-> 1, login_error |-> "" ]
    /\ kind = [t \in Threads |-> IF t = "t1" THEN "read" ELSE "none"]
    /\ pc = [t \in Threads |-> IF t = "t1" THEN "route" ELSE "idle"]
    /\ arg = [t \in Threads |-> IF t = "t1" THEN [NoArg EXCEPT !.scene_id = 1]
                                               ELSE NoArg]
    /\ sess = [t \in Threads |-> session]
    /\ local = [t \in Threads |-> 0]
    /\ status = [t \in Threads |-> "pending"]
    /\ ret = [t \in Threads |-> None]
    /\ exc = [t \in Threads |-> "none"]
    /\ ops = [t \in Threads |-> {}]
    /\ mimetype = [t \in Threads |-> ""]
    /\ listed = [f \in {"x.jpg", "y.png"} |-> 0]
    /\ nreq = 1

NextRender == \E t \in Threads : ReadScene(t)

SpecRender == InitRender /\ [][NextRender]_vars

----------------------------------------------------------------------------
(* The streaming step over bounded assets: secure_media_proxy stands where  *)
(* get_or_register_file_id has returned, for a media kind and a filename    *)
(* drawn from bounded sets                                                  *)

MimeFiles == {"x.jpg", "x.jpeg", "y.png", "z.mp3"}

\* a thread that is idle, or a logged-in media request whose helper returned
AtHelperReturn ==
    { [ kind |-> "none", pc |-> "idle", arg |-> NoArg, ret |-> None,
        status |-> "pending", ops |-> {} ] }
    \cup { [ kind |-> "media", pc |-> "reg_ret",
             arg |-> [ scene_id |-> 1, filename |-> f, media_type |-> m,
                       password |-> "good" ],
             ret |-> r,
             status |-> IF r = None THEN "notfound" ELSE "hit",
             ops |-> {"query", "registry"} ] :
           f \in MimeFiles, m \in {"image", "audio"}, r \in {None, Str(7)} }

InitMime ==
    /\ scene_text = SceneOneText
    /\ media_sync = SceneOneTriggers
    /\ page = NoPage
    /\ files = FilesAtStart
    /\ next_file_id = 3
    /\ pcloud_client = 1
    /\ nclients = 1
    /\ pcloud_creds = TRUE
    /\ session = [ user_id |-> 1, login_error |-> "" ]
    /\ \E th \in [Threads -> AtHelperReturn] :
          /\ kind = [t \in Threads |-> th[t].kind]
          /\ pc = [t \in Threads |-> th[t].pc]
          /\ arg = [t \in Threads |-> th[t].arg]
          /\ ret = [t \in Threads |-> th[t].ret]
          /\ status = [t \in Threads |-> th[t].status]
          /\ ops = [t \in Threads |-> th[t].ops]
    /\ sess = [t \in Threads |-> session]
    /\ local = [t \in Threads |-> 0]
    /\ exc = [t \in Threads |-> "none"]
    /\ mimetype = [t \in Threads |-> ""]
    /\ listed = [f \in {"x.jpg", "y.png"} |-> 0]
    /\ nreq = Cardinality({ t \in Threads : pc[t] # "idle" })

NextMime == \E t \in Threads : RegReturn(t)

SpecMime == InitMime /\ [][NextMime]_vars

----------------------------------------------------------------------------
(* Claims                                                                   *)

Finished(t) == pc[t] = "done"

\* C1: in secure_media_proxy every datastore query, registry access, storage
\* listing and download comes after a successful session check: a media
\* request whose session holds no user_id performs none of them and ends
\* with 401.
C1_SessionGateFirst ==
    \A t \in Threads :
        kind[t] = "media" =>
            /\ ops[t] # {} => LoggedIn(sess[t])
            /\ ~LoggedIn(sess[t]) =>
                  /\ pc[t] \in {"setup", "init", "route", "done"}
                  /\ Finished(t) => status[t] = "401"

\* an anonymous media request was refused while a logged-in one queried
C1_Witness ==
    \E t, u \in Threads :
        /\ kind[t] = "media" /\ ~LoggedIn(sess[t]) /\ Finished(t)
        /\ status[t] = "401" /\ ops[t] = {}
        /\ kind[u] = "media" /\ LoggedIn(sess[u]) /\ "query" \in ops[u]

\* C2: when the datastore answers with no rows (read_scene for a missing
\* scene, secure_media_proxy for an unmapped (scene_id, filename)), the
\* logged-in request ends with 404.
C2_NoRowsIs404 ==
    \A t \in Threads :
        /\ Finished(t) /\ LoggedIn(sess[t]) /\ "query" \in ops[t]
        /\ exc[t] # "OperationalError"
        /\ \/ kind[t] = "read" /\ SceneRows(arg[t].scene_id) = << >>
           \/ kind[t] = "media" /\ ProxyRows(arg[t].scene_id, arg[t].filename) = {}
        => status[t] = "404"

Registered(scene_id, filename) ==
    \E row \in ProxyRows(scene_id, filename) : row.pcloud_file_id # None

\* C3: a logged-in media request with an initialised client, whose
\* (scene_id, filename) is mapped to a registered asset, gets past the
\* datastore query without an error outcome (and goes on to the download).
C3_ResolvableGoesOn ==
    [][ \A t \in Threads :
          /\ pc[t] = "proxy_query" /\ pc'[t] # "proxy_query"
          /\ Registered(arg[t].scene_id, arg[t].filename)
          /\ exc'[t] # "OperationalError"
          => /\ pc'[t] = "reg_select"
             /\ status'[t] \notin {"404", "500"} ]_vars

RowsFor(f) == { r \in files : r.file_name = f }

InStorage(t) ==
    FindFileId(StorageContents(Dirname(PCloudPath(SeriesSlug, BookSlug,
                   arg[t].media_type, arg[t].filename))), arg[t].filename) # 0

Returned(t) == kind[t] = "call" /\ pc[t] \in {"reg_ret", "done"}

\* C4: however get_or_register_file_id calls for one filename interleave,
\* the registry holds at most one row for it, a call that found the file in
\* the listing and met no error returns a reference, all the references
\* returned for the filename are equal, and they are what the one row holds.
C4_OneRowSameReference ==
    /\ \A f \in {"x.jpg", "y.png"} : Cardinality(RowsFor(f)) <= 1
    /\ \A t \in Threads :
          Returned(t) /\ InStorage(t) /\ status[t] # "crash" =>
              /\ status[t] \in {"hit", "registered"}
              /\ ret[t] # None
              /\ RowsFor(arg[t].filename) =
                     { r \in files : r.file_name = arg[t].filename
                                      /\ r.pcloud_file_id = ret[t] }
              /\ Cardinality(RowsFor(arg[t].filename)) = 1
    /\ \A t, u \in Threads :
          /\ Returned(t) /\ Returned(u)
          /\ arg[t].filename = arg[u].filename
          /\ ret[t] # None /\ ret[u] # None
          => ret[t] = ret[u]

\* two calls raced through the listing for one unregistered filename and both
\* registered it
C4_Witness ==
    \E t, u \in Threads :
        /\ t # u /\ Finished(t) /\ Finished(u)
        /\ kind[t] = "call" /\ kind[u] = "call"
        /\ arg[t].filename = arg[u].filename
        /\ status[t] = "registered" /\ status[u] = "registered"

\* C5 as stated: listfolder is issued at most once per filename.
C5_ListedAtMostOnce == \A f \in {"x.jpg", "y.png"} : listed[f] <= 1

\* C5, amended: a call whose registry lookup finds a physical reference for
\* the filename issues no listing and returns that reference (None when the
\* datastore access itself fails).
C5_NoListingOnceRegistered ==
    [][ \A t \in Threads :
          /\ pc[t] = "reg_select" /\ pc'[t] # "reg_select"
          /\ FileRecord(files, arg[t].filename) # None
          => /\ pc'[t] = "reg_ret"
             /\ listed' = listed
             /\ "listing" \notin ops'[t]
             /\ \/ status'[t] = "hit" /\ ret'[t] = FileRecord(files, arg[t].filename)
                \/ status'[t] = "crash" /\ ret'[t] = None ]_vars

\* a later call for a filename that was listed once came back from the
\* registry without a listing of its own
C5_Witness ==
    \E t \in Threads :
        /\ kind[t] = "call" /\ Finished(t) /\ status[t] = "hit"
        /\ "listing" \notin ops[t]
        /\ listed[arg[t].filename] = 1

\* C6: a failed initialisation is retried by the next request, and once an
\* initialisation has succeeded no request is answered with 503.
C6_RetriedAndSticks ==
    [][ \A t \in Threads :
          /\ (pc[t] = "setup" /\ pc'[t] # "setup"
               /\ pcloud_client = 0 /\ pcloud_creds) => pc'[t] = "init"
          /\ (nclients > 0 /\ status'[t] = "503") => status[t] = "503" ]_vars

\* C7: once pcloud_client holds a client, no client is constructed again and
\* the handle is not replaced.
C7_InitializedOnce ==
    [][ pcloud_client # 0 =>
          /\ pcloud_client' = pcloud_client
          /\ nclients' = nclients ]_vars

Rendered == status["t1"] = "200"

NonEmptySpans(text) == SelectSeq(Split(text), LAMBDA p : p # << >>)

\* C8: the rendered units are exactly the non-empty spans of the text, in
\* order, numbered 1, 2, ... among the non-empty spans.
C8_UnitsAreNonEmptySpans ==
    Rendered =>
        LET spans == NonEmptySpans(scene_text)
        IN  /\ Len(page.units) = Len(spans)
            /\ \A i \in 1..Len(page.units) :
                  /\ page.units[i].text = spans[i]
                  /\ page.units[i].id = UnitId(1, i)

\* C9: the default media is the media reference of the first unit, in
\* document order, that carries one, and the placeholder when none does.
C9_DefaultIsFirstUnitWithMedia ==
    Rendered =>
        LET with == { i \in 1..Len(page.units) : page.units[i].media # None }
        IN  page.default_image =
              IF with = {} THEN Placeholder
              ELSE page.units[CHOOSE i \in with : \A j \in with : i <= j].media

Without(rows, k) == SubSeq(rows, 1, k - 1) \o SubSeq(rows, k + 1, Len(rows))

\* C10: a trigger row whose unit identifier is none of the scene's unit
\* identifiers changes nothing: the rendered document is the one rendered
\* without that row.
C10_DanglingTriggerIsInert ==
    Rendered =>
        \A k \in 1..Len(media_sync) :
            (\A i \in 1..Len(page.units) :
                 page.units[i].id # media_sync[k].text_trigger_id)
            => page = RenderScene(1, scene_text,
                          RawTriggers(SceneRowsOf(scene_text, Without(media_sync, k), 1)))

\* the stored rows that are image triggers for the unit identifier id: image
\* rows that carry a media path
ImageRowsFor(id) ==
    { k \in 1..Len(media_sync) :
        /\ media_sync[k].text_trigger_id = id
        /\ media_sync[k].media_type = "image"
        /\ media_sync[k].media_file_path # None }

\* C11: every rendered unit carries at most one media reference: none when no
\* image trigger row names its identifier, and otherwise the media of the
\* row that comes first in the stored order among those that name it.
C11_FirstTriggerWins ==
    Rendered =>
        \A i \in 1..Len(page.units) :
            LET ks == ImageRowsFor(page.units[i].id)
            IN  page.units[i].media =
                  IF ks = {} THEN None
                  ELSE UrlFor(1, Last(media_sync[CHOOSE k \in ks :
                                          \A j \in ks : k <= j].media_file_path))

\* two image rows with different media name the same rendered unit, which
\* carries the media of the earlier row
C11_Witness ==
    /\ Rendered
    /\ \E i \in 1..Len(page.units) :
       \E k, j \in ImageRowsFor(page.units[i].id) :
          /\ k < j
          /\ Last(media_sync[k].media_file_path) # Last(media_sync[j].media_file_path)
          /\ page.units[i].media = UrlFor(1, Last(media_sync[k].media_file_path))

\* the filenames that end in .jpg or .jpeg
EndsInJpeg(filename) == filename \in {"x.jpg", "x.jpeg"}

\* C12: the mimetype of a streamed asset is image/jpeg for an image whose
\* filename ends in .jpg or .jpeg, image/png for any other image, and
\* audio/mpeg for audio.
C12_MimeByKindAndExtension ==
    \A t \in Threads :
        kind[t] = "media" /\ status[t] = "bytes" =>
            mimetype[t] =
              IF arg[t].media_type = "image"
              THEN (IF EndsInJpeg(arg[t].filename) THEN "image/jpeg" ELSE "image/png")
              ELSE "audio/mpeg"

\* a trigger record of the scene refers to the registry row
Linked(scene_id, row) ==
    \E i \in DOMAIN media_sync :
        /\ media_sync[i].scene_id = scene_id
        /\ media_sync[i].file_id = row.file_id

\* C13: after a get_or_register_file_id call that missed the registry and
\* found the file in the listing, the registry row of the filename holds the
\* discovered reference and a trigger record of the requesting scene is linked
\* to that row.
C13_RegisteredAndLinked ==
    \A t \in Threads :
        Returned(t) /\ status[t] = "registered" =>
            \E row \in RowsFor(arg[t].filename) :
                /\ row.pcloud_file_id = ret[t]
                /\ Linked(arg[t].scene_id, row)

\* the asset of a media request is mapped to the scene, has no reference in
\* the registry, and is not in the folder its media kind is stored in
MappedButAbsent(scene_id, filename) ==
    /\ ProxyRows(scene_id, filename) # {}
    /\ \A row \in ProxyRows(scene_id, filename) :
          /\ row.pcloud_file_id = None
          /\ FindFileId(StorageContents(Dirname(PCloudPath(row.series_slug,
                  row.book_slug, row.file_type, filename))), filename) = 0

\* C14: a get_or_register_file_id call that missed the registry and whose
\* listing lacks the filename or fails returns None from that one listing
\* step and leaves the registry as it was; and a logged-in media request for
\* a mapped, unregistered asset that the storage lacks is answered with 404.
C14_MissIsNotFound ==
    [][ \A t \in Threads :
          /\ (pc[t] = "reg_list" /\ pc'[t] = "reg_ret") =>
                /\ ret'[t] = None
                /\ status'[t] \in {"notfound", "crash"}
                /\ files' = files
                /\ listed'[arg[t].filename] <= listed[arg[t].filename] + 1
          /\ (/\ kind[t] = "media" /\ pc[t] # "done" /\ pc'[t] = "done"
              /\ "query" \in ops'[t]
              /\ exc'[t] # "OperationalError"
              /\ MappedButAbsent(arg[t].scene_id, arg[t].filename))
             => status'[t] = "404" ]_vars

\* the handler of a request of kind k answers in this step
Answers(t, k) == kind[t] = k /\ pc[t] = "route" /\ pc'[t] = "done"

\* C15: over requests served one after another on one session, user_id
\* enters the session only by a login_submit whose password matches the
\* stored hash, a logout removes it, a failed or errored login leaves it as
\* it was, and while it is absent story_library and read_scene only redirect
\* to the login page and secure_media_proxy only answers 401.
C15_UserIdOnlyByLogin ==
    [][ /\ (~LoggedIn(session) /\ LoggedIn(session')) =>
              \E t \in Threads :
                  /\ Answers(t, "login")
                  /\ arg[t].password = "good"
                  /\ status'[t] = "to_library"
        /\ \A t \in Threads :
              /\ Answers(t, "logout") => ~LoggedIn(session')
              /\ (Answers(t, "login") /\ arg[t].password # "good") =>
                    /\ session'.user_id = session.user_id
                    /\ status'[t] = "to_login"
              /\ (Answers(t, "login") /\ status'[t] = "to_login") =>
                    session'.user_id = session.user_id
              /\ (~LoggedIn(session) /\ (Answers(t, "library") \/ Answers(t, "read"))) =>
                    /\ status'[t] = "to_login"
                    /\ ops'[t] = {} /\ page' = page /\ session' = session
              /\ (~LoggedIn(session) /\ Answers(t, "media")) =>
                    /\ status'[t] = "401"
                    /\ ops'[t] = {} /\ session' = session ]_vars

\* after a login and a logout, a request of the library, the reader or the
\* media route was turned away
C15_Witness ==
    \E t, u \in Threads :
        /\ Finished(u) /\ kind[u] = "logout" /\ LoggedIn(sess[u])
        /\ Finished(t) /\ kind[t] \in {"library", "read", "media"}
        /\ ~LoggedIn(sess[t]) /\ ~LoggedIn(session)
        /\ status[t] \in {"to_login", "401"}
        /\ nreq = MaxRequests

====
